---- MODULE Spec2Model ----
(***************************************************************************)
(* Model of weblate/utils/stats.py: the cache-backed statistics records,   *)
(* the per-translation computation, the aggregation over the object tree   *)
(* and the recomputation cascade (update_parents).                         *)
(***************************************************************************)
EXTENDS Integers, Sequences, FiniteSets, TLC

VARIABLES
    content,        \* ContentSource: per translation, number of units in each state
    changes,        \* ContentSource: per translation, its content changes, oldest first
    review,         \* project.translation_review (enable_review of the nodes below it)
    state_readonly, \* numeric value of STATE_READONLY (weblate.utils.state)
    lazy,           \* settings.STATS_LAZY
    cache,          \* CacheStore: cache key (node) -> persisted record
    lastptr,        \* CacheStore: per translation, the cached last-change pointer
    objs,           \* per translation: the TranslationStats object a request keeps
    batch,          \* the stats objects of the list a request prefetches
    clock,          \* value of the last monotonic() reading
    queue,          \* Scheduler: committed update_translation_stats_parents jobs, per translation
    ret             \* outcome of the last handler that returned to a caller

vars == <<content, changes, review, state_readonly, lazy, cache, lastptr,
          objs, batch, clock, queue, ret>>

-----------------------------------------------------------------------------
(* Bounds of the model *)

MaxUnits == 1        \* SpecCalc: units in a leaf, besides the scenario leaf
MaxChanges == 1      \* content changes in one behaviour
MaxClock == 22       \* monotonic() readings in one behaviour
MaxJobs == 2         \* queued parent-update jobs per translation
MaxStamp == 5        \* SpecNode: monotonic() readings in one behaviour

-----------------------------------------------------------------------------
(* Values *)

None == -1           \* Python None / SQL NULL where an integer is expected

RECURSIVE SumOver(_, _)
SumOver(S, f) ==
    IF S = {} THEN 0
    ELSE LET x == CHOOSE y \in S : TRUE IN f[x] + SumOver(S \ {x}, f)

Max2(a, b) == IF a >= b THEN a ELSE b

StartsWith(s, pre) == Len(s) >= Len(pre) /\ SubSeq(s, 1, Len(pre)) = pre
EndsWith(s, suf) == Len(s) >= Len(suf) /\ SubSeq(s, Len(s) - Len(suf) + 1, Len(s)) = suf
DropLast(s, n) == SubSeq(s, 1, Len(s) - n)

-----------------------------------------------------------------------------
(* Metric names *)

BASICS ==
    {"all", "fuzzy", "todo", "readonly", "nottranslated", "translated", "approved",
     "allchecks", "translated_checks", "dismissed_checks", "suggestions",
     "nosuggestions", "comments", "approved_suggestions", "unlabeled", "unapproved"}

BASIC_KEYS ==
    {x \o "_words" : x \in BASICS} \cup {x \o "_chars" : x \in BASICS} \cup BASICS
    \cup {"languages", "last_changed", "last_author", "recent_changes",
          "monthly_changes", "total_changes"}

SOURCE_KEYS == BASIC_KEYS \cup {"source_strings", "source_words", "source_chars"}

\* the partition a count/words/chars key measures, and what it measures
KeyBase(k) ==
    IF EndsWith(k, "_words") \/ EndsWith(k, "_chars") THEN DropLast(k, 6) ELSE k
KeyMeasure(k) ==
    IF EndsWith(k, "_words") THEN "words"
    ELSE IF EndsWith(k, "_chars") THEN "chars" ELSE "strings"

\* variant of store that keeps None whatever the key
storeAsIs(data, key, value) == (key :> value) @@ data

\* store(): None becomes 0 except for the last_* keys
store(data, key, value) ==
    IF value = None /\ ~StartsWith(key, "last_")
    THEN (key :> 0) @@ data
    ELSE (key :> value) @@ data

StoreAll(data, stats) ==
    [k \in DOMAIN data \cup DOMAIN stats |->
        IF k \in DOMAIN stats THEN store(data, k, stats[k])[k] ELSE data[k]]

\* __getattr__("stats_timestamp"): a record without the key reads as 0
StatsTimestamp(data) ==
    IF "stats_timestamp" \in DOMAIN data THEN data["stats_timestamp"] ELSE 0

zero_stats(keys) ==
    [k \in keys \cup {"stats_timestamp"} |->
        IF k \in {"last_changed", "last_author"} THEN None ELSE 0]

\* variant of aggregate that takes the last change's time without its author
aggregateTimeOnly(stats, item, stats_data) ==
    IF item = "stats_timestamp"
    THEN [stats EXCEPT ![item] = Max2(@, StatsTimestamp(stats_data))]
    ELSE IF item = "last_changed" THEN
        LET last == stats["last_changed"] IN
        IF stats_data["last_changed"] > 0
           /\ (last <= 0 \/ last < stats_data["last_changed"])
        THEN [stats EXCEPT !["last_changed"] = stats_data["last_changed"]]
        ELSE stats
    ELSE IF item # "last_author" THEN [stats EXCEPT ![item] = @ + stats_data[item]]
    ELSE stats

\* aggregate(stats, item, stats_obj): fold one key of a child record into stats
aggregate(stats, item, stats_data) ==
    IF item = "stats_timestamp"
    THEN [stats EXCEPT ![item] = Max2(@, StatsTimestamp(stats_data))]
    ELSE IF item = "last_changed" THEN
        LET last == stats["last_changed"] IN
        IF stats_data["last_changed"] > 0
           /\ (last <= 0 \/ last < stats_data["last_changed"])
        THEN [stats EXCEPT !["last_changed"] = stats_data["last_changed"],
                           !["last_author"] = stats_data["last_author"]]
        ELSE stats
    ELSE IF item # "last_author" THEN [stats EXCEPT ![item] = @ + stats_data[item]]
    ELSE stats

-----------------------------------------------------------------------------
(* ContentSource: units, checks, labels, changes *)

\* weblate.utils.state: the four ordered states, and the two places the
\* read-only state can take relative to them
STATE_EMPTY == 0
STATE_FUZZY == 10
STATE_TRANSLATED == 20
STATE_APPROVED == 30
ReadonlyBelow == 5
ReadonlyAbove == 100

UnitStates == {"empty", "fuzzy", "translated", "approved", "readonly"}

\* the units of the model: one kind of unit per state
Unit(s) ==
    CASE s = "empty" ->
           [state |-> STATE_EMPTY, num_words |-> 1, source_len |-> 4, checks |-> {},
            dismissed |-> 0, suggestions |-> 0, comments |-> 0, labels |-> {}]
      [] s = "fuzzy" ->
           [state |-> STATE_FUZZY, num_words |-> 2, source_len |-> 5, checks |-> {"same"},
            dismissed |-> 0, suggestions |-> 1, comments |-> 1, labels |-> {}]
      [] s = "translated" ->
           [state |-> STATE_TRANSLATED, num_words |-> 1, source_len |-> 3,
            checks |-> {"same"}, dismissed |-> 1, suggestions |-> 0, comments |-> 0,
            labels |-> {"l1"}]
      [] s = "approved" ->
           [state |-> STATE_APPROVED, num_words |-> 0, source_len |-> 2, checks |-> {},
            dismissed |-> 1, suggestions |-> 1, comments |-> 0, labels |-> {"l1"}]
      [] s = "readonly" ->
           [state |-> state_readonly, num_words |-> 0, source_len |-> 0, checks |-> {},
            dismissed |-> 0, suggestions |-> 0, comments |-> 0, labels |-> {}]

\* CHECKS: url_id of every known check; label_set: the project's labels
CHECKS == {"check:same", "check:end_stop"}
ProjectLabels == {"l1", "l2"}

UnitCount(c) == SumOver(UnitStates, c)

\* variant of InPartition in which translated counts only the states
\* translated and approved, whatever the value of the read-only state
InPartitionNarrow(base, u) ==
    CASE base = "all" -> TRUE
      [] base = "fuzzy" -> u.state = STATE_FUZZY
      [] base = "readonly" -> u.state = state_readonly
      [] base = "translated" -> u.state \in {STATE_TRANSLATED, STATE_APPROVED}
      [] base = "todo" -> u.state < STATE_TRANSLATED
      [] base = "nottranslated" -> u.state = STATE_EMPTY
      [] base = "approved" -> u.state = STATE_APPROVED
      [] base = "unapproved" -> u.state = STATE_TRANSLATED
      [] base = "unlabeled" -> u.labels = {}
      [] base = "allchecks" -> u.checks # {}
      [] base = "translated_checks" -> u.state = STATE_TRANSLATED /\ u.checks # {}
      [] base = "dismissed_checks" -> u.dismissed > 0
      [] base = "suggestions" -> u.suggestions > 0
      [] base = "nosuggestions" -> u.state < STATE_TRANSLATED /\ u.suggestions = 0
      [] base = "approved_suggestions" -> u.state >= STATE_APPROVED /\ u.suggestions > 0
      [] base = "comments" -> u.comments > 0

\* the filter of each partition of _calculate_basic's aggregate query
InPartition(base, u) ==
    CASE base = "all" -> TRUE
      [] base = "fuzzy" -> u.state = STATE_FUZZY
      [] base = "readonly" -> u.state = state_readonly
      [] base = "translated" -> u.state >= STATE_TRANSLATED
      [] base = "todo" -> u.state < STATE_TRANSLATED
      [] base = "nottranslated" -> u.state = STATE_EMPTY
      [] base = "approved" -> u.state = STATE_APPROVED
      [] base = "unapproved" -> u.state = STATE_TRANSLATED
      [] base = "unlabeled" -> u.labels = {}
      [] base = "allchecks" -> u.checks # {}
      [] base = "translated_checks" -> u.state = STATE_TRANSLATED /\ u.checks # {}
      [] base = "dismissed_checks" -> u.dismissed > 0
      [] base = "suggestions" -> u.suggestions > 0
      [] base = "nosuggestions" -> u.state < STATE_TRANSLATED /\ u.suggestions = 0
      [] base = "approved_suggestions" -> u.state >= STATE_APPROVED /\ u.suggestions > 0
      [] base = "comments" -> u.comments > 0

Measure(m, u) ==
    CASE m = "strings" -> 1 [] m = "words" -> u.num_words [] m = "chars" -> u.source_len

\* Sum(Case(When(filter, then=value), default=0)): NULL over no rows
conditional_sum(c, base, m) ==
    IF UnitCount(c) = 0 THEN None
    ELSE SumOver(UnitStates,
                 [s \in UnitStates |->
                    IF InPartition(base, Unit(s)) THEN c[s] * Measure(m, Unit(s)) ELSE 0])

\* the aggregate query of TranslationStats._calculate_basic
UnitAggregate(c) ==
    [k \in {x \o "_words" : x \in BASICS} \cup {x \o "_chars" : x \in BASICS} \cup BASICS |->
        IF k = "all" THEN UnitCount(c) ELSE conditional_sum(c, KeyBase(k), KeyMeasure(k))]

\* wall clock, in hours: one hour passes with each content change
Now == 1 + SumOver(DOMAIN changes, [l \in DOMAIN changes |-> Len(changes[l])])

RecentHours == 6
MonthlyDays == 30

-----------------------------------------------------------------------------
(* The object tree: one project, one category in it, one component list,    *)
(* and the components A, translated into two languages, and B, translated   *)
(* into one of them and without a source translation; both components are   *)
(* in the category and in the list.  The translations that exist are those  *)
(* that have content, and a component exists when it has a translation.     *)

Projects == <<"P">>
Categories == <<"K">>
Languages == <<"L1", "L2">>
ComponentLists == <<"CL">>
AllComponents == <<"A", "B">>
AllTranslations == << <<"A", "L1">>, <<"A", "L2">>, <<"B", "L1">> >>
TranslationsOfA == {<<"A", "L1">>, <<"A", "L2">>}

Translations == SelectSeq(AllTranslations, LAMBDA t : t \in DOMAIN content)
Components ==
    SelectSeq(AllComponents, LAMBDA c : \E t \in DOMAIN content : t[1] = c)

NoObject == ""
CategoryProject(k) == "P"
CategoryParent(k) == NoObject
ComponentProject(c) == "P"
ComponentCategory(c) == IF c \in {"A", "B"} THEN "K" ELSE NoObject
ComponentListOf(cl) == {"A", "B"}
SourceLanguage(c) == "L2"

Node(kind, id) == [kind |-> kind, id |-> id]
TranslationNode(t) == Node("translation", t)
LanguageNode(l) == Node("language", <<l>>)
ComponentNode(c) == Node("component", <<c>>)
CategoryNode(k) == Node("category", <<k>>)
ProjectNode(p) == Node("project", <<p>>)
ComponentListNode(cl) == Node("componentlist", <<cl>>)
GlobalNode == Node("global", <<>>)
ProjectLanguageNode(p, l) == Node("projectlanguage", <<p, l>>)
CategoryLanguageNode(k, l) == Node("categorylanguage", <<k, l>>)
\* GhostStats(base): id is empty without a base, else the base node's kind and id
GhostNode(base) == Node("ghost", <<base.kind>> \o base.id)
GhostZero == Node("ghost", <<>>)
DummyNode(l) == Node("dummy", <<l>>)
GhostBase(n) == Node(Head(n.id), Tail(n.id))

Map(seq, F(_)) == [i \in 1..Len(seq) |-> F(seq[i])]
Range(seq) == {seq[i] : i \in 1..Len(seq)}

Leaves == Range(Map(Translations, TranslationNode))

IsPlaceholder(n) == n.kind \in {"ghost", "dummy"}

\* basic_keys of each class
basic_keys(n) == IF n.kind \in {"translation", "dummy"} THEN BASIC_KEYS ELSE SOURCE_KEYS

\* has_review of each class (BaseStats: True)
has_review(n) ==
    IF n.kind \in {"translation", "component", "project", "projectlanguage",
                   "categorylanguage"}
    THEN review ELSE TRUE

\* object_set of each aggregating class, in queryset order
object_set(n) ==
    CASE n.kind = "language" ->
           Map(SelectSeq(Translations, LAMBDA t : t[2] = n.id[1]), TranslationNode)
      [] n.kind = "component" ->
           Map(SelectSeq(Translations, LAMBDA t : t[1] = n.id[1]), TranslationNode)
      [] n.kind = "category" ->
           Map(SelectSeq(Components, LAMBDA c : ComponentCategory(c) = n.id[1]),
               ComponentNode)
      [] n.kind = "project" ->
           Map(SelectSeq(Components, LAMBDA c : ComponentProject(c) = n.id[1]),
               ComponentNode)
      [] n.kind = "componentlist" ->
           Map(SelectSeq(Components, LAMBDA c : c \in ComponentListOf(n.id[1])),
               ComponentNode)
      [] n.kind = "global" -> Map(Projects, ProjectNode)
      [] n.kind = "projectlanguage" ->
           Map(SelectSeq(Translations,
                         LAMBDA t : t[2] = n.id[2] /\ ComponentProject(t[1]) = n.id[1]),
               TranslationNode)
      [] n.kind = "categorylanguage" ->
           Map(SelectSeq(Translations,
                         LAMBDA t : t[2] = n.id[2] /\ ComponentCategory(t[1]) = n.id[1]),
               TranslationNode)
      [] OTHER -> <<>>

\* category_set of each aggregating class (AggregatingStats: [])
category_set(n) ==
    CASE n.kind = "category" ->
           Map(SelectSeq(Categories, LAMBDA k : CategoryParent(k) = n.id[1]), CategoryNode)
      [] n.kind = "project" ->
           Map(SelectSeq(Categories,
                         LAMBDA k : CategoryProject(k) = n.id[1]
                                    /\ CategoryParent(k) = NoObject),
               CategoryNode)
      [] n.kind = "projectlanguage" ->
           Map(SelectSeq(Categories, LAMBDA k : CategoryProject(k) = n.id[1]), CategoryNode)
      [] n.kind = "categorylanguage" ->
           Map(SelectSeq(Categories, LAMBDA k : CategoryParent(k) = n.id[1]), CategoryNode)
      [] OTHER -> <<>>

RECURSIVE get_update_objects(_), WithUpdateObjects(_)
\* for stat in seq: yield stat; yield from stat.get_update_objects()
WithUpdateObjects(seq) ==
    IF seq = <<>> THEN <<>>
    ELSE <<Head(seq)>> \o get_update_objects(Head(seq)) \o WithUpdateObjects(Tail(seq))

get_update_objects(n) ==
    CASE n.kind = "translation" ->
           LET l == LanguageNode(n.id[2])
               c == ComponentNode(n.id[1])
               pl == ProjectLanguageNode(ComponentProject(n.id[1]), n.id[2])
           IN WithUpdateObjects(<<l>>) \o WithUpdateObjects(<<c>>)
              \o WithUpdateObjects(<<pl>>) \o <<GlobalNode>>
      [] n.kind = "component" ->
           LET p == ProjectNode(ComponentProject(n.id[1]))
               k == CategoryNode(ComponentCategory(n.id[1]))
               cls == Map(SelectSeq(ComponentLists,
                                    LAMBDA cl : n.id[1] \in ComponentListOf(cl)),
                          ComponentListNode)
           IN WithUpdateObjects(<<p>>)
              \o (IF ComponentCategory(n.id[1]) # NoObject
                  THEN WithUpdateObjects(<<k>>) ELSE <<>>)
              \o WithUpdateObjects(cls)
              \o <<GlobalNode>>
      [] n.kind = "category" ->
           LET p == ProjectNode(CategoryProject(n.id[1]))
               k == CategoryNode(CategoryParent(n.id[1]))
           IN WithUpdateObjects(<<p>>)
              \o (IF CategoryParent(n.id[1]) # NoObject
                  THEN WithUpdateObjects(<<k>>) ELSE <<>>)
              \o <<GlobalNode>>
      [] OTHER -> <<GlobalNode>>

\* {stat.cache_key: stat for stat in ...}: keys in order of first appearance
Dedup(seq) ==
    LET first == {i \in 1..Len(seq) : \A j \in 1..(i - 1) : seq[j] # seq[i]}
    IN [k \in 1..Cardinality(first) |->
           seq[CHOOSE i \in first : Cardinality({j \in first : j <= i}) = k]]

-----------------------------------------------------------------------------
(* A stats object O = [loaded, data, pending]: _data (None while not        *)
(* loaded) and _pending_save.  The shared world a handler acts on is        *)
(* G = [cache, lastptr, clock, sched, saves]: the cache store, the          *)
(* monotonic clock, the parent updates scheduled with on_commit and the     *)
(* cache keys written, in order.                                            *)

NewObject == [loaded |-> FALSE, data |-> <<>>, pending |-> FALSE]
Loaded(data) == [loaded |-> TRUE, data |-> data, pending |-> FALSE]

\* load(): cache.get(cache_key, {}); the placeholders return {}
load(n, G) ==
    IF IsPlaceholder(n) THEN <<>>
    ELSE IF n \in DOMAIN G.cache THEN G.cache[n] ELSE <<>>

\* variant of save that schedules update_parents whatever the caller asked
saveScheduling(n, data, G, update_parents) ==
    IF IsPlaceholder(n) THEN G
    ELSE [G EXCEPT !.cache = (n :> data) @@ @,
                   !.saves = Append(@, n),
                   !.sched = IF n.kind = "translation" THEN Append(@, n) ELSE @]

\* variant of save in which the placeholders write to the cache too
saveAlways(n, data, G, update_parents) ==
    [G EXCEPT !.cache = (n :> data) @@ @,
              !.saves = Append(@, n),
              !.sched = IF n.kind = "translation" /\ update_parents
                        THEN Append(@, n) ELSE @]

\* save(): cache.set; a translation also schedules update_parents after commit
save(n, data, G, update_parents) ==
    IF IsPlaceholder(n) THEN G
    ELSE [G EXCEPT !.cache = (n :> data) @@ @,
                   !.saves = Append(@, n),
                   !.sched = IF n.kind = "translation" /\ update_parents
                             THEN Append(@, n) ELSE @]

\* the content changes of a translation
LastChange(l) == changes[l.id][Len(changes[l.id])]
ChangeExists(l, pk) == \E i \in 1..Len(changes[l.id]) : changes[l.id][i].id = pk

\* Change.store_last_change(translation, change): the pointer holds the id of
\* the change, 0 when there is none
store_last_change(l, G, pk) == [G EXCEPT !.lastptr[l.id] = pk]

\* variant of get_last_change_obj that takes the no-changes sentinel for an
\* absent pointer
get_last_change_objRescan(l, G) ==
    LET change_pk == G.lastptr[l.id] IN
    IF change_pk \notin {0, None} /\ ChangeExists(l, change_pk)
    THEN [found |-> TRUE, scanned |-> FALSE, g |-> G,
          change |-> CHOOSE c \in Range(changes[l.id]) : c.id = change_pk]
    ELSE IF changes[l.id] = <<>>
    THEN [found |-> FALSE, scanned |-> TRUE, g |-> store_last_change(l, G, 0)]
    ELSE [found |-> TRUE, scanned |-> TRUE,
          g |-> store_last_change(l, G, LastChange(l).id),
          change |-> LastChange(l)]

\* get_last_change_obj(): whether a change was found, the change, whether the
\* change history was scanned, and the world with the pointer as it leaves it
get_last_change_obj(l, G) ==
    LET change_pk == G.lastptr[l.id] IN
    IF change_pk = 0 THEN [found |-> FALSE, scanned |-> FALSE, g |-> G]
    ELSE IF change_pk # None /\ ChangeExists(l, change_pk)
    THEN [found |-> TRUE, scanned |-> FALSE, g |-> G,
          change |-> CHOOSE c \in Range(changes[l.id]) : c.id = change_pk]
    ELSE IF changes[l.id] = <<>>
    THEN [found |-> FALSE, scanned |-> TRUE, g |-> store_last_change(l, G, 0)]
    ELSE [found |-> TRUE, scanned |-> TRUE,
          g |-> store_last_change(l, G, LastChange(l).id),
          change |-> LastChange(l)]

\* fetch_last_change(), given what get_last_change_obj() returned
StoreLastChange(data, last) ==
    IF ~last.found
    THEN [data |-> store(store(data, "last_changed", None), "last_author", None),
          g |-> last.g]
    ELSE [data |-> store(store(data, "last_changed", last.change.timestamp),
                         "last_author", last.change.author),
          g |-> last.g]

fetch_last_change(l, data, G) == StoreLastChange(data, get_last_change_obj(l, G))

\* the changes of translation l made after the time since
ChangesSince(l, since) ==
    Cardinality({i \in 1..Len(changes[l.id]) : changes[l.id][i].timestamp > since})

\* count_changes()
count_changes(l, data) ==
    IF data["last_changed"] > 0
    THEN store(store(store(data, "recent_changes",
                           ChangesSince(l, data["last_changed"] - RecentHours)),
                     "monthly_changes", ChangesSince(l, Now - MonthlyDays * 24)),
               "total_changes", Len(changes[l.id]))
    ELSE store(store(store(data, "recent_changes", 0), "monthly_changes", 0),
               "total_changes", 0)

CountChanges(l, f) == [data |-> count_changes(l, f.data), g |-> f.g]

\* TranslationStats._calculate_basic: [data, g]
calculate_basic_Translation(l, data, G) ==
    CountChanges(l, fetch_last_change(
        l, store(StoreAll(data, UnitAggregate(content[l.id])), "languages", 1), G))

\* the rows of calculate_checks' query over the units c: the failing checks
CheckNames(c) == UNION {IF c[s] > 0 THEN Unit(s).checks ELSE {} : s \in UnitStates}
CheckSum(c, check, m) ==
    SumOver(UnitStates,
            [s \in UnitStates |->
                IF check \in Unit(s).checks THEN c[s] * Measure(m, Unit(s)) ELSE 0])

\* the keys calculate_checks() stores for the units c
CheckStatsOf(c) ==
    LET found == {"check:" \o x : x \in CheckNames(c)}
        names == found \cup CHECKS
    IN [k \in names \cup {x \o "_words" : x \in names} \cup {x \o "_chars" : x \in names} |->
          IF KeyBase(k) \in found
          THEN CheckSum(c, SubSeq(KeyBase(k), 7, Len(KeyBase(k))), KeyMeasure(k))
          ELSE 0]

\* calculate_checks(), without its final save()
CheckStats(l) == CheckStatsOf(content[l.id])

LabelNames(c) == UNION {IF c[s] > 0 THEN Unit(s).labels ELSE {} : s \in UnitStates}
LabelSum(c, label, m) ==
    SumOver(UnitStates,
            [s \in UnitStates |->
                IF label \in Unit(s).labels THEN c[s] * Measure(m, Unit(s)) ELSE 0])

\* the keys calculate_labels() stores for the units c; no unit carries a
\* translation label
LabelStatsOf(c) ==
    LET found == {"label:" \o x : x \in LabelNames(c)}
        names == found \cup {"label:" \o x : x \in ProjectLabels}
    IN [k \in names \cup {x \o "_words" : x \in names} \cup {x \o "_chars" : x \in names} |->
          IF KeyBase(k) \in found
          THEN LabelSum(c, SubSeq(KeyBase(k), 7, Len(KeyBase(k))), KeyMeasure(k))
          ELSE 0]

\* calculate_labels(), without its final save()
LabelStats(l) == LabelStatsOf(content[l.id])

\* translation_percent(): 100 or 0 over nothing, else the share in percent
translation_percent(translated, total, zero_complete) ==
    IF total = 0 THEN (IF zero_complete THEN 100 ELSE 0)
    ELSE (100 * translated) \div total

-----------------------------------------------------------------------------
(* The handlers.  Each returns [o, g, ok, value, error]: the object and the *)
(* world after it, whether it returned (ok) or raised AttributeError, and   *)
(* the value returned or the error raised.                                  *)

\* return value; raise AttributeError(f"{error} for {self}: {name}")
Returned(o, g, value) == [o |-> o, g |-> g, ok |-> TRUE, value |-> value, error |-> ""]
Raised(o, g, error) == [o |-> o, g |-> g, ok |-> FALSE, value |-> None, error |-> error]

WaitingProperties ==
    {"waiting_review", "waiting_review_words", "waiting_review_chars",
     "waiting_review_percent", "waiting_review_words_percent",
     "waiting_review_chars_percent"}

\* the three attributes a waiting_review* property subtracts
WaitingTerms(name) ==
    <<"translated" \o SubSeq(name, 15, Len(name)),
      "approved" \o SubSeq(name, 15, Len(name)),
      "readonly" \o SubSeq(name, 15, Len(name))>>

\* for item in keys: aggregate(stats, item, stats_obj)
AggregateAll(stats, keys, child) ==
    [k \in DOMAIN stats |->
        IF k = "last_author"
        THEN (IF "last_changed" \in keys
              THEN aggregate(stats, "last_changed", child)[k] ELSE stats[k])
        ELSE IF k \in keys THEN aggregate(stats, k, child)[k] ELSE stats[k]]

\* calculate_source() of each aggregating class
calculate_source(n, child, stats) ==
    IF n.kind = "component" THEN stats
    ELSE IF n.kind \in {"category", "project", "componentlist", "global"}
    THEN AggregateAll(stats, {"source_chars", "source_words", "source_strings"}, child)
    ELSE [stats EXCEPT !["source_chars"] = @ + child["all_chars"],
                       !["source_words"] = @ + child["all_words"],
                       !["source_strings"] = @ + child["all"]]

\* the keys calculate_source() reads from a child
SourceReads(n) ==
    IF n.kind = "component" THEN {}
    ELSE IF n.kind \in {"category", "project", "componentlist", "global"}
    THEN {"source_chars", "source_words", "source_strings"}
    ELSE {"all_chars", "all_words", "all"}

\* get_source_translation()
SourceTranslation(c) ==
    IF <<c, SourceLanguage(c)>> \in Range(Translations)
    THEN <<TranslationNode(<<c, SourceLanguage(c)>>)>> ELSE <<>>

\* Project.languages / Language.objects.have_translation()
ProjectLanguages(p) == {t[2] : t \in {x \in Range(Translations) : ComponentProject(x[1]) = p}}
LanguagesWithTranslation == {t[2] : t \in Range(Translations)}

\* The handlers call each other recursively: a parent computes its missing
\* children on demand.  Each handler takes the results of the calls it makes
\* as arguments of the operator that continues it.
RECURSIVE getattr_missing(_, _, _, _)
RECURSIVE ReadAllLoop(_, _, _, _, _, _)
RECURSIVE AggregateSetLoop(_, _, _, _, _, _, _, _)

\* attribute access: a property of the class, else __getattr__
RECURSIVE getattr(_, _, _, _)

\* getattr(obj, key) for each key of a sequence, on one object
ReadAllNext(n, keys, i, values, r) ==
    IF ~r.ok THEN [o |-> r.o, g |-> r.g, ok |-> FALSE, values |-> values, error |-> r.error]
    ELSE ReadAllLoop(n, keys, i + 1, r.o, r.g, Append(values, r.value))

ReadAllLoop(n, keys, i, O, G, values) ==
    IF i > Len(keys) THEN [o |-> O, g |-> G, ok |-> TRUE, values |-> values, error |-> ""]
    ELSE ReadAllNext(n, keys, i, values, getattr(n, keys[i], O, G))

ReadAll(n, keys, O, G) == ReadAllLoop(n, keys, 1, O, G, <<>>)

StoreSource(O, sr) ==
    [o |-> [O EXCEPT !.data = store(store(store(@, "source_chars", sr.values[1]),
                                          "source_words", sr.values[2]),
                                    "source_strings", sr.values[3])],
     g |-> sr.g]

\* variant of prefetch_source: that of AggregatingStats for every class
prefetch_sourceBase(n, O, G) == [o |-> O, g |-> G]

\* prefetch_source(): ComponentStats copies its source translation's counts
prefetch_source(n, O, G) ==
    IF n.kind # "component" THEN [o |-> O, g |-> G]
    ELSE IF SourceTranslation(n.id[1]) = <<>>
    THEN StoreSource(O, [values |-> <<0, 0, 0>>, g |-> G])
    ELSE StoreSource(O, ReadAll(SourceTranslation(n.id[1])[1],
                                <<"all_chars", "all_words", "all">>, NewObject, G))

\* the languages key of SingleLanguageStats, ProjectStats and GlobalStats
StoreLanguages(n, r) ==
    [o |-> [r.o EXCEPT !.data =
              IF n.kind \in {"projectlanguage", "categorylanguage"}
              THEN store(@, "languages", 1)
              ELSE IF n.kind = "project"
              THEN store(@, "languages", Cardinality(ProjectLanguages(n.id[1])))
              ELSE IF n.kind = "global"
              THEN store(@, "languages", Cardinality(LanguagesWithTranslation))
              ELSE @],
     g |-> r.g]

\* the end of AggregatingStats._calculate_basic: store, prefetch_source
AggregatingStore(n, O, stats, G) ==
    StoreLanguages(n, prefetch_source(n, [O EXCEPT !.data = StoreAll(@, stats)], G))

\* the keys _calculate_basic reads from a child of object_set or category_set
ChildReads(n, objects) ==
    IF objects THEN BASIC_KEYS \cup SourceReads(n) ELSE basic_keys(n)

\* getattr(stats_obj, item) for the keys read: the first one missing computes
ChildRead(n, child, oc, G, objects) ==
    IF ChildReads(n, objects) \subseteq DOMAIN oc.data THEN Returned(oc, G, 0)
    ELSE getattr_missing(child,
                         CHOOSE k \in ChildReads(n, objects) : k \notin DOMAIN oc.data,
                         oc, G)

\* one child folded into stats
FoldChild(n, stats, child, objects) ==
    IF objects THEN calculate_source(n, child, AggregateAll(stats, BASIC_KEYS, child))
    ELSE AggregateAll(stats, basic_keys(n), child)

AggregateChild(n, O, children, G0, i, stats, objects, r) ==
    IF ~r.ok THEN [o |-> O, g |-> r.g]
    ELSE AggregateSetLoop(n, O, children, G0, i + 1,
                          FoldChild(n, stats, r.o.data, objects), r.g, objects)

\* the loops of AggregatingStats._calculate_basic, over object_set (objects)
\* and then over category_set: the children of a set were prefetched from the
\* cache as it was in G0
AggregateSetLoop(n, O, children, G0, i, stats, G, objects) ==
    IF i <= Len(children)
    THEN AggregateChild(n, O, children, G0, i, stats, objects,
                        ChildRead(n, children[i], Loaded(load(children[i], G0)), G,
                                  objects))
    ELSE IF objects
    THEN AggregateSetLoop(n, O, category_set(n), G, 1, stats, G, FALSE)
    ELSE AggregatingStore(n, O, stats, G)

\* AggregatingStats._calculate_basic and its overrides: [o, g]
calculate_basic_Aggregating(n, O, G) ==
    AggregateSetLoop(n, O, object_set(n), G, 1, zero_stats(basic_keys(n)), G, TRUE)

\* variant of GhostStore that mirrors only the all* keys of the baseline
GhostStoreAllOnly(n, O, b) ==
    [o |-> [O EXCEPT !.data =
              StoreAll(@, [zero_stats(basic_keys(n)) EXCEPT
                              !["all"] = b.values[1],
                              !["all_words"] = b.values[2],
                              !["all_chars"] = b.values[3]])],
     g |-> b.g]

\* GhostStats._calculate_basic with a baseline, whose all* reads returned b
GhostStore(n, O, b) ==
    [o |-> [O EXCEPT !.data =
              StoreAll(@, [zero_stats(basic_keys(n)) EXCEPT
                              !["all"] = b.values[1],
                              !["all_words"] = b.values[2],
                              !["all_chars"] = b.values[3],
                              !["todo"] = b.values[1],
                              !["todo_words"] = b.values[2],
                              !["todo_chars"] = b.values[3]])],
     g |-> b.g]

\* GhostStats._calculate_basic: [o, g]
calculate_basic_Ghost(n, O, G) ==
    IF n.id = <<>>
    THEN [o |-> [O EXCEPT !.data = StoreAll(@, zero_stats(basic_keys(n)))], g |-> G]
    ELSE GhostStore(n, O, ReadAll(GhostBase(n), <<"all", "all_words", "all_chars">>,
                                  NewObject, G))

TranslationResult(O, r) == [o |-> [O EXCEPT !.data = r.data], g |-> r.g]

\* _calculate_basic() of each class: [o, g]
calculate_basic_of(n, O, G) ==
    CASE n.kind = "translation" ->
           TranslationResult(O, calculate_basic_Translation(n, O.data, G))
      [] n.kind = "dummy" ->
           [o |-> [O EXCEPT !.data = zero_stats(basic_keys(n))], g |-> G]
      [] n.kind = "ghost" -> calculate_basic_Ghost(n, O, G)
      [] OTHER -> calculate_basic_Aggregating(n, O, G)

\* self.store("stats_timestamp", monotonic())
\* variant of StoreTimestamp in which the clock stands still
StoreTimestampFrozen(r) ==
    [o |-> [r.o EXCEPT !.data = store(@, "stats_timestamp", r.g.clock)], g |-> r.g]

StoreTimestamp(r) ==
    [o |-> [r.o EXCEPT !.data = store(@, "stats_timestamp", r.g.clock + 1)],
     g |-> [r.g EXCEPT !.clock = @ + 1]]

\* calculate_basic(): _calculate_basic(), then the timestamp
calculate_basic(n, O, G) == StoreTimestamp(calculate_basic_of(n, O, G))

\* self.save() of the object r.o
SaveResult(n, r, update_parents) ==
    [o |-> r.o, g |-> save(n, r.o.data, r.g, update_parents)]

\* the keys stats stored into the object, as store() does
StoreResult(O, G, stats) == [o |-> [O EXCEPT !.data = StoreAll(@, stats)], g |-> G]

\* calculate_by_name() of BaseStats and of TranslationStats: [o, g]
calculate_by_name(n, name, O, G) ==
    CASE name \in basic_keys(n) -> SaveResult(n, calculate_basic(n, O, G), TRUE)
      [] n.kind = "translation" /\ StartsWith(name, "check:") ->
           SaveResult(n, StoreResult(O, G, CheckStats(n)), TRUE)
      [] n.kind = "translation" /\ StartsWith(name, "label:") ->
           SaveResult(n, StoreResult(O, G, LabelStats(n)), TRUE)
      [] OTHER -> [o |-> O, g |-> G]

\* variant of completed that never looks at has_review
completedTranslated(n) == {"translated", "translated_words", "translated_chars"}

\* the keys whose percentage is 100 over an empty total
completed(n) ==
    IF has_review(n) THEN {"approved", "approved_words", "approved_chars"}
    ELSE {"translated", "translated_words", "translated_chars"}

PercentValue(n, base, total, value) ==
    IF ~value.ok THEN value
    ELSE Returned(value.o, value.g,
                  translation_percent(value.value, total, base \in completed(n)))

PercentOfTotal(n, base, total) ==
    IF ~total.ok THEN total
    ELSE PercentValue(n, base, total.value, getattr(n, base, total.o, total.g))

\* calculate_percent()
calculate_percent(n, item, O, G) ==
    PercentOfTotal(n, DropLast(item, 8),
                   IF EndsWith(DropLast(item, 8), "_words")
                   THEN getattr(n, "all_words", O, G)
                   ELSE IF EndsWith(DropLast(item, 8), "_chars")
                   THEN getattr(n, "all_chars", O, G)
                   ELSE getattr(n, "all", O, G))

\* variant of AfterCalculate that answers 0 for a name that was not populated
AfterCalculateDefault(n, name, was_pending, c) ==
    IF name \notin DOMAIN c.o.data THEN Returned(c.o, c.g, 0)
    ELSE IF ~was_pending
    THEN Returned([c.o EXCEPT !.pending = FALSE], save(n, c.o.data, c.g, TRUE),
                  c.o.data[name])
    ELSE Returned(c.o, c.g, c.o.data[name])

\* __getattr__ after calculate_by_name() returned c
AfterCalculate(n, name, was_pending, c) ==
    IF name \notin DOMAIN c.o.data THEN Raised(c.o, c.g, "Unsupported stats")
    ELSE IF ~was_pending
    THEN Returned([c.o EXCEPT !.pending = FALSE], save(n, c.o.data, c.g, TRUE),
                  c.o.data[name])
    ELSE Returned(c.o, c.g, c.o.data[name])

\* __getattr__ once _data is loaded
GetLoaded(n, name, O, G) ==
    CASE EndsWith(name, "_percent") -> calculate_percent(n, name, O, G)
      [] name = "stats_timestamp" -> Returned(O, G, StatsTimestamp(O.data))
      [] name \in DOMAIN O.data -> Returned(O, G, O.data[name])
      [] OTHER -> AfterCalculate(n, name, O.pending,
                                 calculate_by_name(n, name, [O EXCEPT !.pending = TRUE], G))

\* BaseStats.__getattr__
getattr_missing(n, name, O, G) ==
    IF StartsWith(name, "_") THEN Raised(O, G, "Invalid stats")
    ELSE GetLoaded(n, name,
                   IF O.loaded THEN O ELSE [O EXCEPT !.loaded = TRUE, !.data = load(n, G)],
                   G)

\* variant of Subtract that never goes below zero
SubtractClamped(r) ==
    IF ~r.ok THEN Raised(r.o, r.g, r.error)
    ELSE Returned(r.o, r.g, Max2(0, r.values[1] - r.values[2] - r.values[3]))

\* translated - approved - readonly of the three values read
Subtract(r) ==
    IF ~r.ok THEN Raised(r.o, r.g, r.error)
    ELSE Returned(r.o, r.g, r.values[1] - r.values[2] - r.values[3])

\* the waiting_review* properties
waiting_review(n, name, O, G) ==
    Subtract(ReadAll(n, IF EndsWith(name, "_percent")
                        THEN Map(WaitingTerms(DropLast(name, 8)),
                                 LAMBDA k : k \o "_percent")
                        ELSE WaitingTerms(name), O, G))

getattr(n, name, O, G) ==
    IF name \in WaitingProperties THEN waiting_review(n, name, O, G)
    ELSE getattr_missing(n, name, O, G)

\* variant of update_stats that persists the copy it loads, in both modes
update_statsLoaded(n, O, G, update_parents) ==
    SaveResult(n, [o |-> Loaded(load(n, G)), g |-> G], update_parents)

\* clear(); update_stats(): [o, g]
update_stats(n, O, G, update_parents) ==
    IF lazy
    THEN SaveResult(n, [o |-> [O EXCEPT !.loaded = TRUE, !.data = <<>>], g |-> G],
                    update_parents)
    ELSE SaveResult(n, calculate_basic(n, [O EXCEPT !.loaded = TRUE, !.data = <<>>], G),
                    update_parents)

\* variant of SkipUpdate that never skips
SkipUpdateNever(self, stat) == FALSE

\* variant of SkipUpdate that compares the timestamps whatever the leaf's is
SkipUpdateCompare(self, stat) == StatsTimestamp(self) <= StatsTimestamp(stat)

\* the timestamp guard of update_parents
SkipUpdate(self, stat) ==
    StatsTimestamp(self) # 0 /\ StatsTimestamp(self) <= StatsTimestamp(stat)

\* the loop of update_parents over the stats prefetched from the cache as it
\* was in G0; self is the record of the translation: the world it leaves
RECURSIVE UpdateParentsLoop(_, _, _, _, _)
UpdateParentsLoop(self, stats, G0, i, G) ==
    IF i > Len(stats) \/ G.clock > MaxClock THEN G
    ELSE IF SkipUpdate(self, load(stats[i], G0))
    THEN UpdateParentsLoop(self, stats, G0, i + 1, G)
    ELSE UpdateParentsLoop(self, stats, G0, i + 1,
                           update_stats(stats[i], Loaded(load(stats[i], G0)), G, TRUE).g)

\* update_parents() of translation l, run by update_translation_stats_parents
update_parents(l, G) ==
    UpdateParentsLoop(load(l, G), Dedup(get_update_objects(l)), G, 1, G)

\* extras of update_language_stats: the update objects of each translation
RECURSIVE Extras(_)
Extras(translations) ==
    IF translations = <<>> THEN <<>>
    ELSE get_update_objects(Head(translations)) \o Extras(Tail(translations))

\* the first loop of update_language_stats:
\* translation.stats.update_stats(update_parents=False) for each translation
RECURSIVE UpdateLanguageLoop(_, _, _)
UpdateLanguageLoop(translations, i, G) ==
    IF i > Len(translations) \/ G.clock > MaxClock THEN G
    ELSE UpdateLanguageLoop(translations, i + 1,
                            update_stats(translations[i], NewObject, G, FALSE).g)

\* self.update_parents(extras) of component c, once its record is in G
UpdateLanguageParents(c, G) ==
    UpdateParentsLoop(load(c, G),
                      Dedup(get_update_objects(c) \o Extras(object_set(c))), G, 1, G)

\* ComponentStats.update_language_stats(): the world it leaves
update_language_stats(c, G) ==
    UpdateLanguageParents(
        c, update_stats(c, NewObject, UpdateLanguageLoop(object_set(c), 1, G), TRUE).g)

-----------------------------------------------------------------------------
(* The state machine *)

\* the attributes read in Spec and SpecConc: <<node, name>>
Reads ==
    {<<TranslationNode(<<"A", "L1">>), "all">>,
     <<TranslationNode(<<"A", "L1">>), "check:same">>,
     <<CategoryLanguageNode("K", "L1"), "all">>}

NoRet == [op |-> "", node |-> GlobalNode, name |-> "", ok |-> TRUE, value |-> 0,
          error |-> "", saves |-> <<>>]

InitialUnits == [s \in UnitStates |-> IF s \in {"empty", "translated"} THEN 1 ELSE 0]

World == [cache |-> cache, lastptr |-> lastptr, clock |-> clock, sched |-> <<>>,
          saves |-> <<>>]

Scheduled(g, l) == Cardinality({i \in 1..Len(g.sched) : g.sched[i] = l})

\* a unit of work committed and left the world g; done jobs left the queue
Commit(g, done) ==
    /\ g.clock <= MaxClock
    /\ \A l \in Leaves : queue[l] + Scheduled(g, l) - done[l] <= MaxJobs
    /\ cache' = g.cache
    /\ lastptr' = g.lastptr
    /\ clock' = g.clock
    /\ queue' = [l \in Leaves |-> queue[l] + Scheduled(g, l) - done[l]]

NoneDone == [l \in Leaves |-> 0]

InitCommon ==
    /\ changes = [t \in Range(Translations) |-> <<>>]
    /\ cache = <<>>
    /\ lastptr = [t \in Range(Translations) |-> None]
    /\ objs = [l \in Leaves |-> NewObject]
    /\ batch = <<>>
    /\ clock = 0
    /\ queue = [l \in Leaves |-> 0]
    /\ ret = NoRet

Init ==
    /\ content = [t \in TranslationsOfA |-> InitialUnits]
    /\ review = TRUE
    /\ state_readonly = ReadonlyAbove
    /\ lazy \in BOOLEAN
    /\ InitCommon

\* the basic counts of the persisted record of translation l are those of its
\* content as it is now
Fresh(l) ==
    /\ l \in DOMAIN cache
    /\ \A k \in DOMAIN UnitAggregate(content[l.id]) :
          k \in DOMAIN cache[l] /\ cache[l][k] = store(<<>>, k, UnitAggregate(content[l.id])[k])[k]

\* a string is translated
Translate(c) == [c EXCEPT !["empty"] = @ - 1, !["translated"] = @ + 1]

\* a string of translation l is translated: Change.save() records the change
\* and points the cached last-change pointer at it
ChangeContent(l) ==
    /\ Now <= MaxChanges
    /\ content[l.id]["empty"] > 0
    /\ content' = [content EXCEPT ![l.id] = Translate(@)]
    /\ changes' = [changes EXCEPT
                      ![l.id] = Append(@, [id |-> Now, timestamp |-> Now,
                                           author |-> 100 + Now])]
    /\ lastptr' = [lastptr EXCEPT ![l.id] = Now]
    /\ UNCHANGED <<review, state_readonly, lazy, cache, objs, batch, clock, queue, ret>>

\* the operations that answer a value or raise
ReadOps == {"get", "get_single_language_stats"}

\* a handler returned r to its caller
Return(r, op, n, name) ==
    /\ Commit(r.g, NoneDone)
    /\ ret' = [op |-> op, node |-> n, name |-> name,
               ok |-> IF op \in ReadOps THEN r.ok ELSE TRUE,
               value |-> IF op \in ReadOps THEN r.value ELSE 0,
               error |-> IF op \in ReadOps THEN r.error ELSE "",
               saves |-> r.g.saves]
    /\ UNCHANGED <<content, changes, review, state_readonly, lazy>>

\* translation.stats.update_stats(), called once the content of l has changed
UpdateStats(l) ==
    /\ ~Fresh(l)
    /\ Return(update_stats(l, NewObject, World, TRUE), "update_stats", l, "")
    /\ UNCHANGED <<objs, batch>>

\* a request reads attribute name of the stats of node n, on a new object
Get(n, name) ==
    /\ Return(getattr(n, name, NewObject, World), "get", n, name)
    /\ UNCHANGED <<objs, batch>>

\* a request that keeps its TranslationStats object of l reads attribute name
GetKept(l, name) ==
    /\ Return(getattr(l, name, objs[l], World), "get", l, name)
    /\ objs' = [objs EXCEPT ![l] = getattr(l, name, objs[l], World).o]
    /\ batch' = batch

\* the request that kept an object of l ends
Drop(l) ==
    /\ objs[l] # NewObject
    /\ objs' = [objs EXCEPT ![l] = NewObject]
    /\ UNCHANGED <<content, changes, review, state_readonly, lazy, cache, lastptr,
                   batch, clock, queue, ret>>

\* the Scheduler runs update_translation_stats_parents(pk) of translation l:
\* translation.stats.update_parents() on a new object
UpdateParents(l) ==
    /\ queue[l] > 0
    /\ Commit(update_parents(l, World), [k \in Leaves |-> IF k = l THEN 1 ELSE 0])
    /\ ret' = [op |-> "update_parents", node |-> l, name |-> "", ok |-> TRUE,
               value |-> 0, error |-> "", saves |-> <<>>]
    /\ UNCHANGED <<content, changes, review, state_readonly, lazy, objs, batch>>

Next ==
    \/ \E l \in Leaves : ChangeContent(l)
    \/ \E l \in Leaves : UpdateStats(l)
    \/ \E r \in Reads : Get(r[1], r[2])
    \/ \E l \in Leaves : UpdateParents(l)

Spec == Init /\ [][Next]_vars

\* Spec with a second worker whose request keeps its object across reads
NextConc ==
    \/ Next
    \/ \E r \in Reads : r[1] \in Leaves /\ GetKept(r[1], r[2])
    \/ \E l \in Leaves : Drop(l)

InitConc == Init /\ ~lazy

SpecConc == InitConc /\ [][NextConc]_vars

-----------------------------------------------------------------------------
(* One read of one attribute, over the node kinds, the leaf contents, the   *)
(* review setting and the place of STATE_READONLY among the states.         *)

\* the leaf of the scenario: 10 strings, 3 fuzzy, 2 read-only, 5 translated of
\* which 4 approved
ScenarioUnits ==
    [s \in UnitStates |->
        CASE s = "fuzzy" -> 3 [] s = "readonly" -> 2 [] s = "translated" -> 1
          [] s = "approved" -> 4 [] OTHER -> 0]

ContentsCalc ==
    {c \in [UnitStates -> 0..MaxUnits] : UnitCount(c) <= MaxUnits} \cup {ScenarioUnits}

CalcLeaf == TranslationNode(<<"A", "L1">>)

Ghosts == {GhostZero, GhostNode(ComponentNode("A"))}

CalcNodes ==
    {CalcLeaf, ComponentNode("A"), CategoryNode("K"), GlobalNode,
     ProjectLanguageNode("P", "L1"), DummyNode("L1")} \cup Ghosts

PercentNames ==
    {k \o "_percent" :
        k \in {"translated", "approved", "fuzzy", "readonly", "approved_words",
               "translated_chars"}}

CalcNames ==
    PercentNames \cup WaitingProperties
    \cup {"all", "translated", "stats_timestamp", "bogus", "bogus_percent",
          "check:bogus", "label:bogus", "check:same", "label:l1", "_data"}

CalcReads == (CalcNodes \X CalcNames) \cup (Ghosts \X SOURCE_KEYS)

InitCalc ==
    /\ \E c \in ContentsCalc :
          content = [t \in TranslationsOfA |->
                        IF t = CalcLeaf.id THEN c ELSE InitialUnits]
    /\ review \in BOOLEAN
    /\ state_readonly \in {ReadonlyBelow, ReadonlyAbove}
    /\ lazy \in BOOLEAN
    /\ InitCommon

Placeholders == Ghosts \cup {DummyNode("L1")}

\* stats.update_stats(update_parents=propagate) of node n, on a new object
UpdateStatsOf(n, propagate) ==
    /\ Return(update_stats(n, NewObject, World, propagate), "update_stats", n,
              IF propagate THEN "" ELSE "update_parents=False")
    /\ UNCHANGED <<objs, batch>>

\* clear(), store() and prefetch_many() change the object they act on and
\* nothing else: prefetch_many reads the cache under the cache_key, the others
\* read nothing
ObjectOps == {"clear", "store", "prefetch_many"}

ObjectOnly(n, op) ==
    /\ Return([g |-> World], op, n, "")
    /\ UNCHANGED <<objs, batch>>

\* a language none of the translations is in
AbsentLanguage == "L3"

\* the classes that define get_single_language_stats
HasSingleLanguageStats(n) ==
    n.kind \in {"component", "category", "project", "projectlanguage", "categorylanguage"}

\* get_single_language_stats(language) of each class: the node whose stats
\* it returns
get_single_language_stats(n, language) ==
    CASE n.kind = "component" ->
           IF \E i \in 1..Len(Translations) : Translations[i] = <<n.id[1], language>>
           THEN TranslationNode(<<n.id[1], language>>)
           ELSE DummyNode(language)
      [] n.kind = "category" -> CategoryLanguageNode(n.id[1], language)
      [] n.kind = "project" -> ProjectLanguageNode(n.id[1], language)
      [] OTHER -> n

\* the nodes asked for the stats of a single language
SingleLanguageNodes ==
    {ComponentNode("A"), CategoryNode("K"), ProjectNode("P"), LanguageNode("L1"),
     ComponentListNode("CL"), GlobalNode, ProjectLanguageNode("P", "L1"),
     CategoryLanguageNode("K", "L1")}

\* node.stats.get_single_language_stats(language).name; on a class without the
\* method the attribute lookup itself falls through to __getattr__
GetSingleLanguage(n, language, name) ==
    /\ Return(IF HasSingleLanguageStats(n)
              THEN getattr(get_single_language_stats(n, language), name, NewObject, World)
              ELSE getattr(n, "get_single_language_stats", NewObject, World),
              "get_single_language_stats", n, name)
    /\ UNCHANGED <<objs, batch>>

NextCalc ==
    \/ \E r \in CalcReads : ret = NoRet /\ Get(r[1], r[2])
    \/ \E n \in SingleLanguageNodes : \E name \in {"all", "translated", "todo_words"} :
          ret = NoRet /\ GetSingleLanguage(n, AbsentLanguage, name)
    \/ \E n \in Placeholders : ret = NoRet /\ UpdateStatsOf(n, TRUE)
    \/ \E n \in Placeholders : \E op \in ObjectOps : ret = NoRet /\ ObjectOnly(n, op)

SpecCalc == InitCalc /\ [][NextCalc]_vars

-----------------------------------------------------------------------------
(* Properties of one read (SpecCalc) *)

Got(n, name) == ret.op = "get" /\ ret.node = n /\ ret.name = name
Persisted(n) == n \in DOMAIN cache

\* the names calculate_by_name() of node n populates in the state
Populated(n) ==
    basic_keys(n) \cup
    (IF n.kind = "translation" THEN DOMAIN CheckStats(n) \cup DOMAIN LabelStats(n) ELSE {})

\* a name that is neither a percentage, nor stats_timestamp, nor populated
Unpopulated(n, name) ==
    /\ ~EndsWith(name, "_percent")
    /\ name # "stats_timestamp"
    /\ name \notin Populated(n)

\* C6 as stated: a read of a name that is not a percentage, not
\* stats_timestamp, not in the record and not populated by calculate_by_name
\* fails with "Unsupported stats" and never answers a value.
C6Claim ==
    (ret.op = "get" /\ Unpopulated(ret.node, ret.name))
        => (~ret.ok /\ ret.error = "Unsupported stats")

\* C6, amended: such a read fails and never answers a default, with "Invalid
\* stats" when the name starts with an underscore and "Unsupported stats"
\* otherwise; the exception is the waiting_review, waiting_review_words and
\* waiting_review_chars properties, which are not populated and answer
\* translated - approved - readonly.
C6Theorem ==
    (ret.op = "get" /\ Unpopulated(ret.node, ret.name))
        => IF ret.name \in WaitingProperties THEN ret.ok
           ELSE /\ ~ret.ok
                /\ ret.value = None
                /\ ret.error = IF StartsWith(ret.name, "_") THEN "Invalid stats"
                               ELSE "Unsupported stats"

C6Witness ==
    /\ ret.op = "get" /\ ret.node.kind = "translation" /\ ret.name = "check:bogus"
    /\ ~ret.ok /\ ret.error = "Unsupported stats"

\* the denominator of a percentage, by the suffix of its base name
Denominator(base) ==
    IF EndsWith(base, "_words") THEN "all_words"
    ELSE IF EndsWith(base, "_chars") THEN "all_chars" ELSE "all"

\* whether base is 100% over an empty total
ZeroComplete(n, base) ==
    IF has_review(n) THEN base \in {"approved", "approved_words", "approved_chars"}
    ELSE base \in {"translated", "translated_words", "translated_chars"}

NoKeyEndsWith(suf) == \A n \in DOMAIN cache : \A k \in DOMAIN cache[n] : ~EndsWith(k, suf)
NoKeyStartsWith(pre) ==
    \A n \in DOMAIN cache : \A k \in DOMAIN cache[n] : ~StartsWith(k, pre)

PercentOf(rec, n, base) ==
    IF rec[Denominator(base)] = 0 THEN (IF ZeroComplete(n, base) THEN 100 ELSE 0)
    ELSE (100 * rec[base]) \div rec[Denominator(base)]

\* C7: the percentage of X is translation_percent of X over all_words when X
\* ends in _words, all_chars when it ends in _chars, all otherwise; over an
\* empty total it is 100 exactly for the approved keys of a node with review
\* and for the translated keys of a node without review, 0 for the others; a
\* placeholder, all zeros, follows the same rule; no record holds a percentage.
C7Theorem ==
    /\ (ret.op = "get" /\ ret.name \in PercentNames /\ Persisted(ret.node))
          => (ret.ok /\ ret.value = PercentOf(cache[ret.node], ret.node,
                                              DropLast(ret.name, 8)))
    /\ (ret.op = "get" /\ ret.name \in PercentNames
        /\ ret.node \in {GhostZero, DummyNode("L1")})
          => (ret.ok /\ ret.value = IF ZeroComplete(ret.node, DropLast(ret.name, 8))
                                    THEN 100 ELSE 0)
    /\ NoKeyEndsWith("_percent")

C7Witness ==
    /\ Got(CalcLeaf, "approved_words_percent")
    /\ review
    /\ Persisted(CalcLeaf)
    /\ cache[CalcLeaf]["all"] > 0
    /\ cache[CalcLeaf]["all_words"] = 0
    /\ ret.value = 100

\* C8: waiting_review, waiting_review_words and waiting_review_chars answer
\* translated - approved - readonly of the matching keys of the record,
\* negative when the difference is, and no record holds a waiting_review key.
C8Theorem ==
    /\ \A suf \in {"", "_words", "_chars"} :
          (ret.op = "get" /\ ret.name = "waiting_review" \o suf /\ Persisted(ret.node))
             => /\ ret.ok
                /\ ret.value = cache[ret.node]["translated" \o suf]
                               - cache[ret.node]["approved" \o suf]
                               - cache[ret.node]["readonly" \o suf]
    /\ NoKeyStartsWith("waiting_review")

C8Witness ==
    /\ Got(CalcLeaf, "waiting_review")
    /\ Persisted(CalcLeaf)
    /\ cache[CalcLeaf]["readonly"] > 0
    /\ ret.value < 0

Scenario == content[CalcLeaf.id] = ScenarioUnits /\ review /\ ret.op = "get" /\ ret.node = CalcLeaf

StatePartition(rec, suf) ==
    rec["nottranslated" \o suf] + rec["fuzzy" \o suf] + rec["unapproved" \o suf]
    + rec["approved" \o suf] + rec["readonly" \o suf] = rec["all" \o suf]

GhostRead == ret.op = "get" /\ ret.node \in Ghosts /\ ret.name \in SOURCE_KEYS

\* whether the placeholder n mirrors the baseline's all* under the name
Mirrors(n, name) == n.id # <<>> /\ KeyBase(name) \in {"all", "todo"}

\* C10 as stated: a placeholder reports 0 for every basic key, except that
\* with a baseline its all* keys equal the baseline's and its todo* keys its
\* own all* keys.
C10Claim ==
    GhostRead =>
        /\ ret.ok
        /\ ret.value = IF Mirrors(ret.node, ret.name)
                       THEN cache[GhostBase(ret.node)][Denominator(ret.name)]
                       ELSE 0

\* C10, amended: a placeholder reports None for last_changed and last_author
\* and 0 for every other basic key, except that with a baseline its all* keys
\* equal the baseline's and its todo* keys its own all* keys.
C10Theorem ==
    GhostRead =>
        /\ ret.ok
        /\ ret.value = IF ret.name \in {"last_changed", "last_author"} THEN None
                       ELSE IF Mirrors(ret.node, ret.name)
                       THEN cache[GhostBase(ret.node)][Denominator(ret.name)]
                       ELSE 0

C10Witness ==
    /\ Got(GhostNode(ComponentNode("A")), "todo_words")
    /\ ret.value = cache[ComponentNode("A")]["all_words"]
    /\ ret.value > 0

-----------------------------------------------------------------------------
(* Properties of the cascade and of the persisted records (Spec, SpecConc) *)

\* the keys summed over the children: count, words and chars of each partition
SummedKeys == BASICS \cup {x \o "_words" : x \in BASICS} \cup {x \o "_chars" : x \in BASICS}

\* the immediate children of a composite node
Children(n) == Range(object_set(n)) \cup Range(category_set(n))

\* key k of the persisted record of n, 0 when it holds none
PersistedValue(n, k) == IF Persisted(n) /\ k \in DOMAIN cache[n] THEN cache[n][k] ELSE 0

\* the persisted record of n holds the sum of its children's persisted records
Sums(n) ==
    /\ Persisted(n)
    /\ \A k \in SummedKeys :
          /\ k \in DOMAIN cache[n]
          /\ cache[n][k] = SumOver(Children(n),
                                   [c \in Children(n) |-> PersistedValue(c, k)])

\* the composite nodes that aggregate translation l, directly or transitively
Composites(l) ==
    {ComponentNode(l.id[1]), LanguageNode(l.id[2]), GlobalNode,
     ProjectNode(ComponentProject(l.id[1])),
     ProjectLanguageNode(ComponentProject(l.id[1]), l.id[2])}
    \cup {CategoryNode(k) : k \in {ComponentCategory(l.id[1])} \ {NoObject}}
    \cup {ComponentListNode(cl) : cl \in {x \in Range(ComponentLists) :
                                              l.id[1] \in ComponentListOf(x)}}

\* the update_stats() of l has persisted the current content, the last
\* operation was an update_parents pass of l, no pass is left to run and no
\* translation holds a record older than its content
CascadeDone(l) ==
    /\ ~lazy
    /\ ret.op = "update_parents"
    /\ ret.node = l
    /\ Fresh(l)
    /\ \A k \in Leaves : queue[k] = 0 /\ (Persisted(k) => Fresh(k))

\* C1 as stated: in eager mode, once the update_stats() of a leaf has
\* persisted and the update_parents pass it scheduled has run, the summed
\* basic keys of every composite node aggregating the leaf equal the sum of
\* the same keys in the persisted records of its immediate children.
C1Claim == \A l \in Leaves : CascadeDone(l) => \A n \in Composites(l) : Sums(n)

\* the (category x language) views over translation l
CategoryViews(l) ==
    {CategoryLanguageNode(k, l.id[2]) : k \in {ComponentCategory(l.id[1])} \ {NoObject}}

\* the views over translation l
Views(l) == CategoryViews(l) \cup {ProjectLanguageNode(ComponentProject(l.id[1]), l.id[2])}

\* C2 as stated: the nodes a leaf's save schedules for recomputation contain
\* every persisted composite node and view that aggregates the leaf, the
\* (category x language) and (project x language) views included, and once the
\* cascade has finished no persisted view holds a record computed before the
\* leaf's.
C2Claim ==
    \A l \in Leaves :
        /\ \A n \in Composites(l) \cup Views(l) :
              Persisted(n) => n \in Range(get_update_objects(l))
        /\ CascadeDone(l) =>
              \A v \in Views(l) :
                 (Persisted(v) /\ cache[v] # <<>>)
                    => StatsTimestamp(cache[v]) >= StatsTimestamp(cache[l])

\* C3 as stated: each persisted record is empty or holds the complete basic
\* key set of its node kind together with stats_timestamp.
C3Claim ==
    \A n \in DOMAIN cache :
        \/ cache[n] = <<>>
        \/ (basic_keys(n) \cup {"stats_timestamp"}) \subseteq DOMAIN cache[n]

\* the versions the content of a translation goes through
RECURSIVE VersionsUpTo(_)
VersionsUpTo(k) ==
    IF k = 0 THEN {InitialUnits}
    ELSE VersionsUpTo(k - 1)
         \cup {Translate(c) : c \in {v \in VersionsUpTo(k - 1) : v["empty"] > 0}}

Versions == VersionsUpTo(MaxChanges)

\* every count, check and label key of the record is the one computed from c
DerivedFrom(rec, c) ==
    /\ \A k \in SummedKeys \cap DOMAIN rec : rec[k] = store(<<>>, k, UnitAggregate(c)[k])[k]
    /\ \A k \in DOMAIN CheckStatsOf(c) \cap DOMAIN rec : rec[k] = CheckStatsOf(c)[k]
    /\ \A k \in DOMAIN LabelStatsOf(c) \cap DOMAIN rec : rec[k] = LabelStatsOf(c)[k]

\* C4 as stated: every persisted record of a translation is self-consistent:
\* its basic keys and the check: and label: keys it carries were all derived
\* from one and the same version of the content.
C4Claim ==
    \A l \in Leaves : Persisted(l) => \E c \in Versions : DerivedFrom(cache[l], c)

\* C5 as stated: for every cache key, the stats_timestamp read from the
\* persisted record never decreases from one write to the next.
C5Claim ==
    [][\A n \in DOMAIN cache :
          /\ n \in DOMAIN cache'
          /\ StatsTimestamp(cache'[n]) >= StatsTimestamp(cache[n])]_vars

-----------------------------------------------------------------------------
(* Placeholders (SpecCalc) *)

OnPlaceholder == ret.op # "" /\ ret.node \in Placeholders

NothingQueued == \A l \in Leaves : queue[l] = 0

\* C11 as stated: no operation on a placeholder (get, update_stats, clear,
\* store, prefetch_many) writes to the cache or schedules a recomputation,
\* and its load yields the empty record.
C11Claim ==
    OnPlaceholder => (cache = <<>> /\ NothingQueued /\ load(ret.node, World) = <<>>)

\* the nodes whose records a get of the baseline b can compute on a miss
Below(b) == {b} \cup Children(b)

\* C11, amended: no operation on a placeholder writes a record under the
\* placeholder's own key, and its load yields the empty record whatever the
\* cache holds; a placeholder without baseline and DummyTranslationStats write
\* nothing and schedule nothing, and so do clear, store and prefetch_many; a
\* get or eager update_stats of a placeholder with a baseline reads the
\* baseline's all* keys, which on a miss computes and persists the records of
\* the baseline and of its translations and schedules their update_parents.
C11Theorem ==
    /\ \A n \in Placeholders : ~Persisted(n) /\ load(n, World) = <<>>
    /\ (OnPlaceholder /\ (ret.node.id = <<>> \/ ret.node.kind = "dummy"
                          \/ ret.op \in ObjectOps \/ (ret.op = "update_stats" /\ lazy)))
          => (cache = <<>> /\ NothingQueued /\ ret.saves = <<>>)
    /\ OnPlaceholder => DOMAIN cache \subseteq Below(ComponentNode("A"))

C11Witness ==
    /\ ret.op = "update_stats"
    /\ ret.node = GhostNode(ComponentNode("A"))
    /\ Persisted(ComponentNode("A"))
    /\ Persisted(CalcLeaf)
    /\ queue[CalcLeaf] > 0

-----------------------------------------------------------------------------
(* The stats of a single language (SpecCalc) *)

\* C12 as stated: get_single_language_stats(language) is available on every
\* tree node kind and, for a language with no translation in the node's scope,
\* returns without failure a record in which every basic counter is 0.
C12Claim ==
    ret.op = "get_single_language_stats" => (ret.ok /\ ret.value = 0)

-----------------------------------------------------------------------------
(* Calls of update_stats and reads in sequence, around a content change *)

NodeOps == {CalcLeaf, ComponentNode("A"), ProjectNode("P")}

NodeReads ==
    {<<CalcLeaf, "translated">>, <<CalcLeaf, "check:same">>,
     <<ComponentNode("A"), "translated">>}

InitNode ==
    /\ content = [t \in TranslationsOfA |-> InitialUnits]
    /\ review = TRUE
    /\ state_readonly = ReadonlyAbove
    /\ lazy \in BOOLEAN
    /\ InitCommon

NextNode ==
    \/ \E n \in NodeOps : \E propagate \in BOOLEAN :
          clock < MaxStamp /\ UpdateStatsOf(n, propagate)
    \/ \E r \in NodeReads : clock < MaxStamp /\ Get(r[1], r[2])
    \/ ChangeContent(CalcLeaf)

SpecNode == InitNode /\ [][NextNode]_vars

\* this step is a call of update_stats() on node n
UpdateStatsStep(n) ==
    /\ ret'.op = "update_stats" /\ ret'.node = n
    /\ <<cache, clock, queue>> # <<cache', clock', queue'>>

\* this step is a call of update_stats() on node n that follows another one
\* on n with no other call and no content change in between
SecondUpdate(n) ==
    /\ ret.op = "update_stats" /\ ret.node = n
    /\ UpdateStatsStep(n)
    /\ Persisted(n)
    /\ (n.kind = "translation" /\ ~lazy) => Fresh(n)

SameButTimestamp(a, b) ==
    /\ DOMAIN a = DOMAIN b
    /\ \A k \in DOMAIN a \ {"stats_timestamp"} : a[k] = b[k]

-----------------------------------------------------------------------------
(* At-least-once delivery of the parent-update job *)

\* the broker delivers the last job of translation l once more, after every
\* job scheduled for l has run: update_translation_stats_parents(pk) again
Redeliver(l) ==
    /\ queue[l] = 0
    /\ Persisted(l)
    /\ Commit(update_parents(l, World), NoneDone)
    /\ ret' = [op |-> "update_parents", node |-> l, name |-> "again", ok |-> TRUE,
               value |-> 0, error |-> "", saves |-> <<>>]
    /\ UNCHANGED <<content, changes, review, state_readonly, lazy, objs, batch>>

\* reads of a translation and of its ancestors
JobReads ==
    {<<TranslationNode(<<"A", "L1">>), "all">>, <<ComponentNode("A"), "all">>,
     <<ProjectNode("P"), "translated">>}

NextJob ==
    \/ \E l \in Leaves : ChangeContent(l)
    \/ \E l \in Leaves : UpdateStats(l)
    \/ \E r \in JobReads : Get(r[1], r[2])
    \/ \E l \in Leaves : UpdateParents(l)
    \/ \E l \in Leaves : Redeliver(l)

SpecJob == Init /\ [][NextJob]_vars

Ancestors(l) == Range(get_update_objects(l))

\* the persisted record of n holds every basic key
Complete(n) == Persisted(n) /\ basic_keys(n) \subseteq DOMAIN cache[n]

\* this step executes the parent-update job of l a second time: it is a
\* redelivery, or it follows an execution for l with nothing in between
SecondExecution(l) ==
    /\ ret'.op = "update_parents" /\ ret'.node = l
    /\ \/ ret'.name = "again"
       \/ ret.op = "update_parents" /\ ret.node = l

\* C14: executing the parent-update job of a leaf a second time leaves the
\* persisted record of every ancestor as it was after the first execution:
\* no basic-key value changes and no up-to-date record is replaced by an older
\* or an empty one.
C14Theorem ==
    [][\A l \in Leaves :
          SecondExecution(l) =>
             \A a \in Ancestors(l) : Persisted(a) => cache'[a] = cache[a]]_vars

\* a second execution ran while ancestors held complete records
C14Witness ==
    /\ ~lazy
    /\ ret.op = "update_parents" /\ ret.name = "again"
    /\ \A a \in Ancestors(ret.node) : Persisted(a) /\ Complete(a)

-----------------------------------------------------------------------------
(* The record of a component (SpecTree) *)

ComponentA == ComponentNode("A")
ComponentB == ComponentNode("B")

\* the keys of a component added up over its translations
AddedKeys ==
    SummedKeys \cup {"languages", "recent_changes", "monthly_changes", "total_changes"}

\* the source_* keys and the keys of the source translation they come from
SourceKeys ==
    {<<"source_strings", "all">>, <<"source_words", "all_words">>,
     <<"source_chars", "all_chars">>}

\* C15: source_strings, source_words and source_chars of a component are the
\* all, all_words and all_chars of its source translation, 0 when it has
\* none, not a sum over its translations; every other counter is the sum over
\* all its translations, the source translation included.
C15Theorem ==
    \A c \in Range(Components) :
        Complete(ComponentNode(c)) =>
            /\ \A l \in Children(ComponentNode(c)) : Complete(l)
            /\ \A k \in SourceKeys :
                  cache[ComponentNode(c)][k[1]] =
                     IF SourceTranslation(c) = <<>> THEN 0
                     ELSE cache[SourceTranslation(c)[1]][k[2]]
            /\ \A k \in AddedKeys :
                  cache[ComponentNode(c)][k] =
                     SumOver(Children(ComponentNode(c)),
                             [l \in Children(ComponentNode(c)) |-> cache[l][k]])

\* component A over 10 strings in A/L1 and 2 in its source translation A/L2,
\* or component B over 10 strings in B/L1 and no source translation
C15Witness ==
    \/ /\ Got(ComponentA, "source_strings")
       /\ content[<<"A", "L1">>] = ScenarioUnits
       /\ Complete(ComponentA)
       /\ cache[ComponentA]["all"] = 12
       /\ cache[TranslationNode(<<"A", "L2">>)]["all"] = 2
       /\ ret.value = 2
    \/ /\ Got(ComponentB, "source_strings")
       /\ Complete(ComponentB)
       /\ cache[ComponentB]["all"] = 10
       /\ ret.value = 0

-----------------------------------------------------------------------------
(* One read on the tree of two components, after content changes *)

TreeContents == {InitialUnits, ScenarioUnits}

\* the hours at which the translations were last changed, 0 for never: the
\* changes were made one an hour, from hour 1 on
ChangeHours ==
    {w \in [Range(AllTranslations) -> 0..Len(AllTranslations)] :
        \A h \in 1..Len(AllTranslations) :
           /\ Cardinality({t \in DOMAIN w : w[t] = h}) <= 1
           /\ (\E t \in DOMAIN w : w[t] = h) =>
                 \A g \in 1..h : \E t \in DOMAIN w : w[t] = g}

TreeNodes ==
    {ComponentNode("A"), ComponentNode("B"), LanguageNode("L1"), LanguageNode("L2"),
     CategoryNode("K"), ComponentListNode("CL"), ProjectNode("P"), GlobalNode}

TreeNames ==
    {"languages", "all", "source_strings", "last_changed", "last_author",
     "total_changes"}

\* every translation has content and was changed at most once: Change.save()
\* recorded the change and pointed the cached last-change pointer at it
InitTree ==
    /\ content \in [Range(AllTranslations) -> TreeContents]
    /\ \E w \in ChangeHours :
          /\ changes = [t \in Range(AllTranslations) |->
                          IF w[t] = 0 THEN <<>>
                          ELSE <<[id |-> w[t], timestamp |-> w[t],
                                  author |-> 100 + w[t]]>>]
          /\ lastptr = [t \in Range(AllTranslations) |->
                          IF w[t] = 0 THEN None ELSE w[t]]
    /\ review = TRUE
    /\ state_readonly = ReadonlyAbove
    /\ lazy \in BOOLEAN
    /\ cache = <<>>
    /\ objs = [l \in Leaves |-> NewObject]
    /\ batch = <<>>
    /\ clock = 0
    /\ queue = [l \in Leaves |-> 0]
    /\ ret = NoRet

NextTree ==
    \E n \in TreeNodes : \E name \in TreeNames : ret = NoRet /\ Get(n, name)

SpecTree == InitTree /\ [][NextTree]_vars

\* the translations below a composite node
Descendants(n) ==
    {t \in Range(Translations) :
        CASE n.kind = "component" -> t[1] = n.id[1]
          [] n.kind = "language" -> t[2] = n.id[1]
          [] n.kind = "category" -> ComponentCategory(t[1]) = n.id[1]
          [] n.kind = "componentlist" -> t[1] \in ComponentListOf(n.id[1])
          [] n.kind = "project" -> ComponentProject(t[1]) = n.id[1]
          [] OTHER -> TRUE}

\* C16 as stated: for every composite kind (component, language, category,
\* component list, project, global) languages is the number of distinct
\* languages among the descendant translations, never the sum of the
\* children's languages values.
C16Claim ==
    (Got(ret.node, "languages") /\ ret.node \in TreeNodes) =>
        /\ ret.ok
        /\ ret.value = Cardinality({t[2] : t \in Descendants(ret.node)})


\* the times of last change the persisted records of the children of n hold
ChildTimes(n) ==
    {cache[c]["last_changed"] : c \in {x \in Children(n) : Complete(x)}} \ {None}

\* C17: the complete record of a composite node holds as last_changed the
\* greatest last_changed among its children's records, None when no child
\* has one, and as last_author the last_author of a child with that
\* last_changed.
C17Theorem ==
    \A n \in TreeNodes :
        Complete(n) =>
            /\ \A c \in Children(n) : Complete(c)
            /\ IF ChildTimes(n) = {}
               THEN /\ cache[n]["last_changed"] = None
                    /\ cache[n]["last_author"] = None
               ELSE /\ cache[n]["last_changed"] \in ChildTimes(n)
                    /\ \A t \in ChildTimes(n) : t <= cache[n]["last_changed"]
                    /\ \E c \in Children(n) :
                          /\ cache[c]["last_changed"] = cache[n]["last_changed"]
                          /\ cache[c]["last_author"] = cache[n]["last_author"]

\* language L1 took the time and the author from the second of its two
\* translations, the one changed last
C17Witness ==
    /\ Got(LanguageNode("L1"), "last_author")
    /\ Complete(LanguageNode("L1"))
    /\ cache[TranslationNode(<<"A", "L1">>)]["last_changed"] = 1
    /\ cache[TranslationNode(<<"B", "L1">>)]["last_changed"] = 2
    /\ cache[LanguageNode("L1")]["last_changed"] = 2
    /\ ret.value = cache[TranslationNode(<<"B", "L1">>)]["last_author"]
    /\ ret.value = 102

-----------------------------------------------------------------------------
(* update_stats by mode (SpecNode) *)

\* the persisted record of n was computed from what n reads as it is now: the
\* content of a translation, the persisted records of the children of a
\* composite node
Current(n) ==
    /\ Complete(n)
    /\ IF n.kind = "translation" THEN Fresh(n) ELSE Sums(n)

\* this step is a read of a basic key of node n, whose persisted record is the
\* empty marker
GetAfterMarker(n) ==
    /\ ret'.op = "get" /\ ret'.node = n /\ ret'.name = "translated"
    /\ Persisted(n) /\ cache[n] = <<>>

-----------------------------------------------------------------------------
(* Units of work: requests that commit or roll back, and the jobs they queue *)

\* variant of Rollback in which the callbacks run although nothing committed
RollbackQueued(r, op, n) ==
    /\ Commit(r.g, NoneDone)
    /\ ret' = [op |-> op, node |-> n, name |-> "rollback", ok |-> TRUE, value |-> 0,
               error |-> "", saves |-> r.g.saves]
    /\ UNCHANGED <<content, changes, review, state_readonly, lazy>>

\* the unit of work of a handler rolled back: the cache keeps what was
\* written, the callbacks registered with transaction.on_commit are dropped
Rollback(r, op, n) ==
    /\ r.g.clock <= MaxClock
    /\ cache' = r.g.cache
    /\ lastptr' = r.g.lastptr
    /\ clock' = r.g.clock
    /\ queue' = queue
    /\ ret' = [op |-> op, node |-> n, name |-> "rollback", ok |-> TRUE, value |-> 0,
               error |-> "", saves |-> r.g.saves]
    /\ UNCHANGED <<content, changes, review, state_readonly, lazy>>

\* translation.stats.update_stats() in a unit of work that rolls back
UpdateStatsAborted(l) ==
    /\ ~Fresh(l)
    /\ Rollback(update_stats(l, NewObject, World, TRUE), "update_stats", l)
    /\ UNCHANGED <<objs, batch>>

\* component.stats.update_language_stats(), called once content of c has changed
UpdateLanguageStats(c) ==
    /\ \E l \in Range(object_set(c)) : ~Fresh(l)
    /\ Return([g |-> update_language_stats(c, World)], "update_language_stats", c, "")
    /\ UNCHANGED <<objs, batch>>

\* reads of a translation and of its component
WorkReads == {<<CalcLeaf, "all">>, <<ComponentNode("A"), "all">>}

NextWork ==
    \/ ChangeContent(CalcLeaf)
    \/ UpdateStats(CalcLeaf)
    \/ UpdateStatsAborted(CalcLeaf)
    \/ ~Fresh(CalcLeaf) /\ UpdateStatsOf(CalcLeaf, FALSE)
    \/ \E r \in WorkReads : Get(r[1], r[2])
    \/ \E l \in Leaves : UpdateParents(l)
    \/ UpdateLanguageStats(ComponentNode("A"))

SpecWork == Init /\ [][NextWork]_vars


\* this step is a handler that ran to its end: a request or a job
HandlerStep == <<cache, clock, queue, ret>> # <<cache', clock', queue', ret'>>

\* this step is the unit of work of a request
RequestStep == HandlerStep /\ ret'.op # "update_parents"

\* the records written from position i on of the sequence saves
SavedFrom(saves, i) == {saves[j] : j \in i..Len(saves)}

\* C19 as stated: between the save of a translation's record and the commit
\* of the enclosing unit of work no record of an ancestor of the translation
\* is recomputed or written.
C19Claim ==
    [][RequestStep =>
          \A i \in 1..Len(ret'.saves) :
             ret'.saves[i] \in Leaves =>
                SavedFrom(ret'.saves, i + 1) \cap Ancestors(ret'.saves[i]) = {}]_vars

\* C19, amended: the recomputation a translation's save schedules never runs
\* in the unit of work that saved the record: update_stats() and reads of a
\* translation write no other record than the translation's, a unit of work
\* that rolls back queues nothing, and update_parents runs only as a job
\* queued by a committed unit of work.  Records of ancestors are written
\* before the commit only by a read of a composite node, which writes the
\* node itself and its children, and by update_language_stats.
C19Theorem ==
    [][HandlerStep =>
          /\ ret'.op \in {"get", "update_stats"} =>
                Range(ret'.saves) \subseteq Below(ret'.node)
          /\ (\E a \in UNION {Ancestors(l) : l \in Leaves} :
                 a \in DOMAIN cache' /\ (a \notin DOMAIN cache \/ cache'[a] # cache[a]))
                => \/ ret'.op \in {"update_parents", "update_language_stats"}
                   \/ ret'.op = "get" /\ ret'.node \notin Leaves
          /\ ret'.name = "rollback" => queue' = queue
          /\ ret'.op = "update_parents" => queue[ret'.node] > 0]_vars

\* a unit of work that saved the record of a translation rolled back: the
\* record is in the cache and no job is queued
C19Witness ==
    /\ ~lazy
    /\ ret.op = "update_stats" /\ ret.name = "rollback"
    /\ ret.saves = <<CalcLeaf>>
    /\ Current(CalcLeaf)
    /\ \A l \in Leaves : queue[l] = 0
    /\ \A a \in Ancestors(CalcLeaf) : ~Persisted(a)

\* the number of times the record of n was written
Saves(saves, n) == Cardinality({i \in 1..Len(saves) : saves[i] = n})

\* C20: every write of a translation's record schedules one update_parents
\* job, queued when the unit of work commits, unless the caller suppressed it:
\* update_stats(update_parents=False) on a translation writes its record once
\* and schedules nothing, the one write update_language_stats makes of the
\* record of each translation of the component schedules nothing, and the
\* write of a composite node's record schedules nothing.
C20Theorem ==
    [][(RequestStep /\ ret'.name # "rollback") =>
          /\ \A l \in Leaves :
                queue'[l] - queue[l] =
                   IF ret'.name = "update_parents=False" THEN 0
                   ELSE IF /\ ret'.op = "update_language_stats"
                           /\ l \in Range(object_set(ret'.node))
                   THEN Saves(ret'.saves, l) - 1
                   ELSE Saves(ret'.saves, l)
          /\ ret'.name = "update_parents=False" => ret'.saves = <<ret'.node>>
          /\ ret'.op = "update_language_stats" =>
                Range(object_set(ret'.node)) \subseteq Range(ret'.saves)]_vars

\* update_stats(update_parents=False) wrote the record of a translation and
\* no job is queued
C20Witness ==
    /\ ~lazy
    /\ ret.op = "update_stats" /\ ret.name = "update_parents=False"
    /\ ret.node = CalcLeaf /\ ret.saves = <<CalcLeaf>>
    /\ Current(CalcLeaf)
    /\ \A l \in Leaves : queue[l] = 0

-----------------------------------------------------------------------------
(* The views of one language (SpecCalc) *)

LanguageViews == {ProjectLanguageNode("P", "L1"), CategoryLanguageNode("K", "L1")}

\* the translations in the owning scope of view v that have its language
ViewTranslations(v) ==
    {TranslationNode(t) :
        t \in {x \in Range(Translations) :
                 /\ x[2] = v.id[2]
                 /\ IF v.kind = "projectlanguage"
                    THEN ComponentProject(x[1]) = v.id[1]
                    ELSE ComponentCategory(x[1]) = v.id[1]}}

\* C21 as stated: the record of a project x language or category x language
\* view holds, for every summed basic key, the sum over the records of the
\* translations of its scope that have its language, each once, and nothing
\* of a translation in another language.
C21Claim ==
    \A v \in LanguageViews :
        Complete(v) =>
            \A k \in SummedKeys :
                cache[v][k] = SumOver(ViewTranslations(v),
                                      [l \in ViewTranslations(v) |-> PersistedValue(l, k)])

-----------------------------------------------------------------------------
(* The update_parents pass (Spec) *)

\* this step is an update_parents pass of translation l
PassStep(l) ==
    /\ ret'.op = "update_parents" /\ ret'.node = l
    /\ <<cache, clock, queue>> # <<cache', clock', queue'>>

\* the record of n was computed in this step
Recomputed(n) == n \in DOMAIN cache' /\ StatsTimestamp(cache'[n]) > clock

\* C22 as stated: within one update_parents pass, whenever a node X and a
\* node Y whose aggregation reads X's record are both recomputed, X is
\* recomputed before Y, so that Y reads X's refreshed record.
C22Claim ==
    [][\A l \in Leaves :
          PassStep(l) =>
             \A X, Y \in Ancestors(l) :
                (X \in Children(Y) /\ Recomputed(X) /\ Recomputed(Y)) =>
                   StatsTimestamp(cache'[X]) < StatsTimestamp(cache'[Y])]_vars

\* the nodes the update_parents pass of l writes, from the present state
PassSaves(l) == Range(update_parents(l, World).saves)

\* stats_timestamp of n as the pass reads it: 0 without a record or a timestamp
ReadTimestamp(n) == StatsTimestamp(load(n, World))

\* the pass leaves ancestor a alone
Skipped(l, a) == a \notin PassSaves(l) /\ (Persisted(a) => cache'[a] = cache[a])

\* C23 as stated: every ancestor whose persisted stats_timestamp is greater
\* than or equal to the leaf's is skipped, every ancestor with a strictly
\* older one is recomputed, for every value of the leaf's timestamp, 0 included.
C23Claim ==
    [][\A l \in Leaves :
          PassStep(l) =>
             \A a \in Ancestors(l) :
                IF ReadTimestamp(a) >= ReadTimestamp(l)
                THEN Skipped(l, a)
                ELSE a \in PassSaves(l)]_vars

\* C23 amended: when the leaf's stats_timestamp is not 0, every ancestor whose
\* persisted stats_timestamp is greater than or equal to it is skipped and
\* every ancestor with a strictly older one is recomputed and written; when
\* the leaf's record is empty or carries no timestamp (read as 0), no ancestor
\* is skipped: every one is recomputed and written.
C23Theorem ==
    [][\A l \in Leaves :
          PassStep(l) =>
             \A a \in Ancestors(l) :
                IF ReadTimestamp(l) # 0 /\ ReadTimestamp(a) >= ReadTimestamp(l)
                THEN Skipped(l, a)
                ELSE a \in DOMAIN cache' /\ a \in PassSaves(l)]_vars

\* a pass has run for a leaf whose record is empty: every ancestor was written
C23Witness ==
    /\ lazy
    /\ ret.op = "update_parents"
    /\ Persisted(ret.node) /\ ReadTimestamp(ret.node) = 0
    /\ \A a \in Ancestors(ret.node) : Persisted(a)

\* the ancestors of l that add up records of translations, the views apart
Aggregators(l) ==
    {a \in Ancestors(l) :
        a.kind \in {"component", "language", "category", "componentlist", "project", "global"}}

\* the timestamp guard makes the pass of l skip ancestor a
GuardSkips(l, a) ==
    ReadTimestamp(l) # 0 /\ ReadTimestamp(l) <= ReadTimestamp(a)

\* no translation under a holds a record computed after the record of a
NothingNewerBelow(a) ==
    \A t \in Descendants(a) :
        /\ Persisted(TranslationNode(t))
        /\ ReadTimestamp(TranslationNode(t)) <= ReadTimestamp(a)

\* key k of node n as its aggregation yields it from the persisted records of
\* the translations below it
RECURSIVE FromLeaves(_, _)
FromLeaves(n, k) ==
    IF n.kind = "translation" THEN PersistedValue(n, k)
    ELSE SumOver(Children(n), [c \in Children(n) |-> FromLeaves(c, k)])

\* the summed keys of a are those its aggregation yields from the persisted
\* records of its translations
FromPersistedLeaves(a) ==
    \A k \in SummedKeys : PersistedValue(a, k) = FromLeaves(a, k)

\* C24 as stated: whenever update_parents skips an ancestor, under every
\* interleaving of leaf recomputations and passes, the ancestor's persisted
\* record was computed from the triggering leaf's currently persisted record
\* or a newer one: an ancestor that is skipped, and under which no translation
\* record is newer than its own, holds the values of the persisted records of
\* its translations.
C24Claim ==
    [][\A l \in Leaves :
          (PassStep(l) /\ ~lazy) =>
             \A a \in Aggregators(l) :
                (GuardSkips(l, a) /\ NothingNewerBelow(a)) => FromPersistedLeaves(a)]_vars

-----------------------------------------------------------------------------
(* The writes of one read (SpecCalc) *)

\* names of each kind of metric, read directly
MissNames == {"all", "translated", "check:same", "label:l1"}

\* C25 as stated: a get that misses in the loaded record causes exactly one
\* write of that node's record to the cache, performed at the end of the
\* outermost miss, whatever the metric: a basic key, check:<name> or
\* label:<name>.
C25Claim ==
    (/\ ret.op = "get" /\ ret.ok /\ ret.name \in MissNames
     /\ ret.node \in Range(ret.saves))
        => /\ Saves(ret.saves, ret.node) = 1
           /\ ret.saves[Len(ret.saves)] = ret.node

-----------------------------------------------------------------------------
(* Workers whose monotonic clocks differ (SpecClock) *)

\* how far the monotonic clock of the second worker is ahead of the first's
ClockSkew == 3

\* the world as the second worker sees it, and back
Ahead(G) == [G EXCEPT !.clock = @ + ClockSkew]
Back(r) == [r EXCEPT !.g.clock = @ - ClockSkew]

\* translation.stats.update_stats() run by the second worker
UpdateStatsAhead(l) ==
    /\ ~Fresh(l)
    /\ Return(Back(update_stats(l, NewObject, Ahead(World), TRUE)), "update_stats", l, "ahead")
    /\ UNCHANGED <<objs, batch>>

ClockReads ==
    {<<CalcLeaf, "all">>, <<ComponentNode("A"), "all">>, <<ProjectNode("P"), "all">>}

NextClock ==
    \/ ChangeContent(CalcLeaf)
    \/ UpdateStats(CalcLeaf)
    \/ UpdateStatsAhead(CalcLeaf)
    \/ \E r \in ClockReads : Get(r[1], r[2])
    \/ \E l \in Leaves : UpdateParents(l)

SpecClock == InitConc /\ [][NextClock]_vars

\* this step is a read of node n that computed and persisted its record
ComputingRead(n) ==
    /\ ret'.op = "get" /\ ret'.node = n
    /\ <<cache, clock, queue>> # <<cache', clock', queue'>>
    /\ n \in Range(ret'.saves)

\* C26 as stated: the stats_timestamp a composite node persists after
\* calculate_basic is the maximum of its own computation time and of the
\* stats_timestamp of every child record it incorporated: it is never lower
\* than that of a child it was computed from, also when the child was computed
\* by a worker with another clock reading.
C26Claim ==
    [][\A n \in {ComponentNode("A"), ProjectNode("P")} :
          ComputingRead(n) =>
             \A c \in Children(n) :
                StatsTimestamp(cache'[n]) >= StatsTimestamp(cache'[c])]_vars

-----------------------------------------------------------------------------
(* prefetch_many over a list of stats objects (SpecPrefetch) *)

MaxBatch == 2

\* the nodes whose stats objects a list holds
BatchNodes == {CalcLeaf, TranslationNode(<<"A", "L2">>), ComponentNode("A")}

\* the lists of at most n nodes
RECURSIVE ListsUpTo(_)
ListsUpTo(n) ==
    IF n = 0 THEN {<<>>}
    ELSE ListsUpTo(n - 1)
         \cup {Append(s, x) : s \in {t \in ListsUpTo(n - 1) : Len(t) = n - 1}, x \in BatchNodes}

\* i.is_loaded
is_loaded(i) == i.o.loaded

\* lookup = {i.cache_key: i for i in stats if not i.is_loaded}: the positions
\* the dict keeps, the last one of each cache key
lookup(stats) ==
    {i \in 1..Len(stats) :
        /\ ~is_loaded(stats[i])
        /\ \A j \in (i + 1)..Len(stats) :
              is_loaded(stats[j]) \/ stats[j].node # stats[i].node}

\* set_data(data)
set_data(i, data) == [i EXCEPT !.o = [@ EXCEPT !.loaded = TRUE, !.data = data]]

\* prefetch_many(stats): the list of objects it leaves and the number of
\* cache.get_many round trips
prefetch_many(stats, G) ==
    [stats |-> [i \in 1..Len(stats) |->
                   IF i \in lookup(stats) THEN set_data(stats[i], load(stats[i].node, G))
                   ELSE stats[i]],
     trips |-> IF lookup(stats) = {} THEN 0 ELSE 1]

\* a request builds a list of new stats objects
MakeBatch(nodes) ==
    /\ batch = <<>>
    /\ nodes # <<>>
    /\ batch' = [i \in 1..Len(nodes) |-> [node |-> nodes[i], o |-> NewObject]]
    /\ UNCHANGED <<content, changes, review, state_readonly, lazy, cache, lastptr,
                   objs, clock, queue, ret>>

\* the request calls prefetch_many on its list
PrefetchMany ==
    /\ batch # <<>>
    /\ batch' = prefetch_many(batch, World).stats
    /\ ret' = [op |-> "prefetch_many", node |-> batch[1].node, name |-> "batch",
               ok |-> TRUE, value |-> prefetch_many(batch, World).trips,
               error |-> "", saves |-> <<>>]
    /\ UNCHANGED <<content, changes, review, state_readonly, lazy, cache, lastptr,
                   objs, clock, queue>>

\* the request reads attribute name from the i-th object of its list
GetBatch(i, name) ==
    /\ i \in 1..Len(batch)
    /\ Return(getattr(batch[i].node, name, batch[i].o, World), "get", batch[i].node, name)
    /\ batch' = [batch EXCEPT ![i].o = getattr(batch[i].node, name, batch[i].o, World).o]
    /\ objs' = objs

\* the request ends
DropBatch ==
    /\ batch # <<>>
    /\ batch' = <<>>
    /\ UNCHANGED <<content, changes, review, state_readonly, lazy, cache, lastptr,
                   objs, clock, queue, ret>>

NextPrefetch ==
    \/ UpdateStats(CalcLeaf)
    \/ \E nodes \in ListsUpTo(MaxBatch) : MakeBatch(nodes)
    \/ PrefetchMany
    \/ \E i \in 1..MaxBatch : GetBatch(i, "all")
    \/ DropBatch

SpecPrefetch == Init /\ [][NextPrefetch]_vars

\* this step is a call of prefetch_many on the list
PrefetchStep ==
    /\ ret'.op = "prefetch_many" /\ ret'.name = "batch"
    /\ <<batch, ret>> # <<batch', ret'>>

\* C27 as stated: prefetch_many issues at most one cache round trip, none
\* when all nodes are loaded, and afterwards every node of the list is loaded,
\* an object that was not with the cached record on a hit and with an empty
\* record on a miss, for every list, one in which several objects share a
\* cache key included.
C27Claim ==
    [][PrefetchStep =>
          /\ ret'.value <= 1
          /\ (\A i \in 1..Len(batch) : is_loaded(batch[i])) => ret'.value = 0
          /\ \A i \in 1..Len(batch') :
                /\ is_loaded(batch'[i])
                /\ ~is_loaded(batch[i]) =>
                      batch'[i].o.data = (IF Persisted(batch[i].node)
                                          THEN cache[batch[i].node] ELSE <<>>)]_vars

-----------------------------------------------------------------------------
(* The pointer to the last change of a translation (SpecChange) *)

\* the cache entry of the pointer of translation l expires
PointerExpires(l) ==
    /\ lastptr[l.id] # None
    /\ lastptr' = [lastptr EXCEPT ![l.id] = None]
    /\ UNCHANGED <<content, changes, review, state_readonly, lazy, cache, objs, batch,
                   clock, queue, ret>>

\* the changes of translation l are removed from the history
HistoryPruned(l) ==
    /\ changes[l.id] # <<>>
    /\ changes' = [changes EXCEPT ![l.id] = <<>>]
    /\ UNCHANGED <<content, review, state_readonly, lazy, cache, lastptr, objs, batch,
                   clock, queue, ret>>

NextChange ==
    \/ ChangeContent(CalcLeaf)
    \/ PointerExpires(CalcLeaf)
    \/ HistoryPruned(CalcLeaf)
    \/ \E propagate \in BOOLEAN : clock < MaxStamp /\ UpdateStatsOf(CalcLeaf, propagate)
    \/ \E name \in {"last_changed", "total_changes"} :
          clock < MaxStamp /\ Get(CalcLeaf, name)

SpecChange == Init /\ [][NextChange]_vars

\* the pointer of l names a change of the history
PointsAtChange(l) == lastptr[l.id] \notin {0, None} /\ ChangeExists(l, lastptr[l.id])

-----------------------------------------------------------------------------
(* The partition of a record (SpecCalc) *)

\* todo and translated split all, in strings, words and characters
Partitioned(rec) ==
    /\ rec["todo"] + rec["translated"] = rec["all"]
    /\ rec["todo_words"] + rec["translated_words"] = rec["all_words"]
    /\ rec["todo_chars"] + rec["translated_chars"] = rec["all_chars"]

\* every count and sum key of node n holds a natural number
Counted(n, rec) ==
    \A k \in basic_keys(n) \ {"last_changed", "last_author"} : rec[k] \in Nat

\* C29: in every record produced by calculate_basic, of a leaf, a composite,
\* a secondary-axis view or a placeholder, todo + translated = all,
\* todo_words + translated_words = all_words and todo_chars + translated_chars
\* = all_chars, and every count and sum key holds an integer >= 0, never None,
\* also for a leaf with no items and a composite with no children.
C29Theorem ==
    /\ \A n \in DOMAIN cache :
          Complete(n) => (Partitioned(cache[n]) /\ Counted(n, cache[n]))
    /\ \A g \in Ghosts :
          /\ Partitioned(calculate_basic(g, NewObject, World).o.data)
          /\ Counted(g, calculate_basic(g, NewObject, World).o.data)

\* the record of a leaf with no items was computed
C29Witness ==
    /\ UnitCount(content[CalcLeaf.id]) = 0
    /\ Complete(CalcLeaf)
    /\ cache[CalcLeaf]["all"] = 0 /\ cache[CalcLeaf]["todo_words"] = 0
    /\ cache[CalcLeaf]["last_changed"] = None

-----------------------------------------------------------------------------
(* A read that fails on an object that is kept (SpecObject) *)

\* the names read from the object: basic keys, a check, and unknown names
ObjectNames == {"all", "check:same", "bogus", "check:bogus", "label:bogus"}

NextObject ==
    \/ \E n \in BatchNodes : MakeBatch(<<n>>)
    \/ \E name \in ObjectNames : GetBatch(1, name)
    \/ DropBatch

SpecObject == Init /\ [][NextObject]_vars

\* this step is a get on an object of the list that raised "Unsupported stats"
FailingGet ==
    /\ ret'.op = "get" /\ ~ret'.ok /\ ret'.error = "Unsupported stats"
    /\ batch # <<>> /\ DOMAIN batch' = DOMAIN batch
    /\ <<batch, ret, cache, queue>> # <<batch', ret', cache', queue'>>

\* the record of object i as a load would leave it
LoadedRecord(i) == IF is_loaded(i) THEN i.o.data ELSE load(i.node, World)

\* C30 as stated: a get that fails with the unsupported-stat condition has no
\* lasting effect: the loaded record of the node, its pending-save guard, back
\* to false, and the cache are as before the call, for every unknown name,
\* those with the check: or label: prefix included.
C30Claim ==
    [][FailingGet =>
          /\ cache' = cache
          /\ queue' = queue
          /\ \A i \in DOMAIN batch :
                /\ batch'[i].o.data = LoadedRecord(batch[i])
                /\ ~batch'[i].o.pending]_vars

====
